---- MODULE Spec2Model ----
(***************************************************************************)
(* Model of the menu search engine (core/menu_search.py) and of the cached *)
(* search tool in front of it (tools/menu.py).                             *)
(*                                                                         *)
(* Scores are cosine similarities; they are kept as integers in units of   *)
(* 10^-6, so 0.75 is 750000 and 0.749999 is 749999.  Text is a sequence of *)
(* characters, each character a short token ("beh" for the Arabic letter   *)
(* beh, "A"/"a" for Latin letters, " " for a blank).                       *)
(***************************************************************************)
EXTENDS Integers, Sequences, FiniteSets, TLC

VARIABLES
    menu_items,        \* MenuSearchEngine.menu_items: the loaded catalog
    name_index,        \* MenuSearchEngine.name_index: per position, its vector
    full_index,        \* MenuSearchEngine.full_index: per position, its vector
    pc,                \* "idle", or the operation whose outcome is pending
    call,              \* the arguments of the pending operation
    outcome,           \* what the pending operation returned or raised
    consulted,         \* the retrieval stages the pending search consulted
    menu_engine,       \* tools.menu.menu_engine: "None" until main.py installs it
    now,               \* time.time(), in whole seconds
    _cache_timestamp,  \* tools.menu._cache_timestamp
    lru,               \* the lru_cache of _search_menu_cached, least recent first
    tool_call,         \* the last search_menu call: arguments and what it did
    seen,              \* per probe query: its last call and the queries since
    threads,           \* per thread: where it is inside search_menu, its locals
    session            \* SessionStore.get_current(): the session of the customer

engine_vars == <<menu_items, name_index, full_index, pc, call, outcome, consulted>>

cache_vars == <<menu_engine, now, _cache_timestamp, lru, tool_call, seen, threads>>

vars == <<engine_vars, cache_vars, session>>

----------------------------------------------------------------------------
(* Bounds of the model. *)

\* the largest catalog loaded
MaxItems == 6
\* the number of distinct filler queries sent through the cache
MaxFillers == 129
\* the number of clock ticks
MaxTicks == 2
\* the number of threads calling search_menu at the same time
MaxThreads == 2
\* the number of bucket rollovers while the threads run
MaxRollovers == 1
\* the number of lines an order grows to
MaxOrderItems == 2

----------------------------------------------------------------------------
(* Program constants, scores in units of 10^-6. *)

HIGH_CONFIDENCE == 750000
MEDIUM_CONFIDENCE == 550000
\* the literal 0.3 of the name-hit filter of the low tier
NAME_MERGE_SCORE == 300000
\* the literal 0.35 of the full-index filter of the low tier
FULL_MERGE_SCORE == 350000
\* int(time.time() / 300)
CACHE_BUCKET_SECONDS == 300
\* lru_cache(maxsize=128)
maxsize == 128
\* name_results[:3]
NAME_MERGE_LIMIT == 3
\* all_results[:5]
LOW_ITEMS_LIMIT == 5
\* the score FAISS reports beside a position of -1 (no hit): -FLT_MAX
PlaceholderScore == 0 - 2000000000

\* the top_k values search is called with (tools/menu.py:30, tools/order.py:60)
TopKs == {1, 5}

----------------------------------------------------------------------------
(* Python helpers. *)

Min(a, b) == IF a <= b THEN a ELSE b

\* mutant: the position taken as 1-based, menu_items[idx - 1]
PyIndex_oneBased(seq, i) == IF i <= 0 THEN seq[Len(seq) + i] ELSE seq[i]

\* seq[i] with Python's 0-based index, a negative i counting from the end
PyIndex(seq, i) == IF i < 0 THEN seq[Len(seq) + 1 + i] ELSE seq[i + 1]

\* seq[:n]
Take(seq, n) == SubSeq(seq, 1, Min(n, Len(seq)))

\* round(x, 2) of a score in units of 10^-6: to the nearest 10^-2, halves to even
Round2(x) ==
    LET q == x \div 10000
        r == x % 10000
    IN IF r < 5000 THEN q * 10000
       ELSE IF r > 5000 THEN (q + 1) * 10000
       ELSE IF q % 2 = 0 THEN q * 10000 ELSE (q + 1) * 10000

RECURSIVE InsertByScoreDesc(_, _)
\* x placed after every element whose score is not below its own
InsertByScoreDesc(sorted, x) ==
    IF sorted = <<>> THEN <<x>>
    ELSE IF Head(sorted).score >= x.score
         THEN <<Head(sorted)>> \o InsertByScoreDesc(Tail(sorted), x)
         ELSE <<x>> \o sorted

RECURSIVE SortByScoreDesc(_)
\* list.sort(key=score, reverse=True): stable, equal scores keep their order
SortByScoreDesc(items) ==
    IF items = <<>> THEN <<>>
    ELSE InsertByScoreDesc(SortByScoreDesc(SubSeq(items, 1, Len(items) - 1)),
                           items[Len(items)])

----------------------------------------------------------------------------
(* Text: MenuSearchEngine._normalize_text and what it calls. *)

Whitespace == {" ", "tab"}

\* the marks araby.strip_tashkeel removes
TASHKEEL == {"fathatan", "dammatan", "kasratan", "fatha", "damma", "kasra",
             "sukun", "shadda"}

\* the letters araby.normalize_alef rewrites to a bare alef
ALEFAT == {"alef_with_madda_above", "alef_with_hamza_above",
           "alef_with_hamza_below", "hamza_above", "hamza_below"}

\* the letters araby.normalize_hamza rewrites to a bare hamza
HAMZAT == {"waw_with_hamza_above", "yeh_with_hamza_above"}

\* the lam-alef ligatures araby.normalize_ligature spells out
LIGATURES == {"ligature_lam_with_alef", "ligature_lam_with_alef_with_hamza_above"}

UpperCase == <<"A", "B", "C", "E", "G", "R", "U">>
LowerCase == <<"a", "b", "c", "e", "g", "r", "u">>

PHONETIC_SIMILAR ==
    <<<<"jeem", <<"qaf", "kaf">>>>,
      <<"zain", <<"seen", "thal">>>>,
      <<"alef", <<"alef_maksura">>>>>>

FOOD_SPELLING_FIXES ==
    <<<<<<"beh", "reh", "jeem", "reh">>,
        <<<<"beh", "reh", "qaf", "reh">>,
          <<"beh", "reh", "kaf", "reh">>,
          <<"beh", "reh", "ghain", "reh">>,
          <<"beh", "yeh", "reh", "jeem", "reh">>,
          <<"beh", "waw", "reh", "jeem", "reh">>>>>>,
      <<<<"beh", "yeh", "teh", "zain", "alef">>,
        <<<<"beh", "yeh", "teh", "seen", "alef">>,
          <<"beh", "yeh", "teh", "zain", "heh">>,
          <<"beh", "yeh", "teh", "zain", "teh_marbuta">>>>>>,
      <<<<"sheen", "alef", "waw", "reh", "meem", "alef">>,
        <<<<"sheen", "waw", "reh", "meem", "alef">>,
          <<"sheen", "waw", "alef", "reh", "meem", "alef">>,
          <<"sheen", "waw", "yeh", "reh", "meem", "alef">>,
          <<"sheen", "alef", "waw", "reh", "meem", "heh">>>>>>,
      <<<<"kaf", "alef", "beh", "teh", "sheen", "yeh", "noon", "waw">>,
        <<<<"kaf", "beh", "teh", "sheen", "yeh", "noon", "waw">>,
          <<"kaf", "alef", "beh", "waw", "teh", "sheen", "yeh", "noon", "waw">>,
          <<"kaf", "alef", "beh", "teh", "sheen", "yeh", "noon", "heh">>>>>>,
      <<<<"seen", "noon", "dal", "waw", "yeh", "sheen">>,
        <<<<"seen", "noon", "dal", "waw", "teh", "sheen">>,
          <<"seen", "alef", "noon", "dal", "waw", "yeh", "sheen">>,
          <<"seen", "noon", "dal", "waw", "yeh", "teh", "sheen">>>>>>,
      <<<<"beh", "tah", "alef", "tah", "seen">>,
        <<<<"beh", "tah", "alef", "tah", "alef">>,
          <<"beh", "tah", "alef", "tah", "sad">>>>>>,
      <<<<"heh", "meem", "beh", "reh", "jeem", "reh">>,
        <<<<"heh", "alef", "meem", "beh", "reh", "jeem", "reh">>,
          <<"heh", "meem", "beh", "reh", "qaf", "reh">>,
          <<"heh", "alef", "meem", "beh", "waw", "reh", "jeem", "reh">>,
          <<"heh", "alef", "meem", "beh", "waw", "reh", "ghain", "reh">>>>>>>>

\* the characters of text that are not in drop
RemoveChars(text, drop) == SelectSeq(text, LAMBDA c : c \notin drop)

\* str.replace of one character by another
ReplaceChar(text, old, new) ==
    [i \in 1..Len(text) |-> IF text[i] = old THEN new ELSE text[i]]

RECURSIVE ExpandChars(_, _, _)
\* every character of from replaced by the string to
ExpandChars(text, from, to) ==
    IF text = <<>> THEN <<>>
    ELSE (IF Head(text) \in from THEN to ELSE <<Head(text)>>)
         \o ExpandChars(Tail(text), from, to)

\* sub occurs in text at position i (1-based)
OccursAt(sub, text, i) ==
    /\ i + Len(sub) - 1 <= Len(text)
    /\ \A j \in 1..Len(sub) : text[i + j - 1] = sub[j]

\* Python's  sub in text
Contains(sub, text) == \E i \in 1..(Len(text) + 1) : OccursAt(sub, text, i)

RECURSIVE StrReplace(_, _, _)
\* Python's  text.replace(old, new)  for a non-empty old: left to right, no overlap
StrReplace(text, old, new) ==
    IF text = <<>> THEN <<>>
    ELSE IF OccursAt(old, text, 1)
         THEN new \o StrReplace(SubSeq(text, Len(old) + 1, Len(text)), old, new)
         ELSE <<Head(text)>> \o StrReplace(Tail(text), old, new)

RECURSIVE SplitFrom(_, _)
\* the words of text, cur being the word read so far
SplitFrom(text, cur) ==
    IF text = <<>> THEN (IF cur = <<>> THEN <<>> ELSE <<cur>>)
    ELSE IF Head(text) \in Whitespace
         THEN (IF cur = <<>> THEN <<>> ELSE <<cur>>) \o SplitFrom(Tail(text), <<>>)
         ELSE SplitFrom(Tail(text), Append(cur, Head(text)))

\* Python's  text.split()
Split(text) == SplitFrom(text, <<>>)

RECURSIVE Join(_)
\* Python's  " ".join(words)
Join(words) ==
    IF words = <<>> THEN <<>>
    ELSE IF Len(words) = 1 THEN words[1]
    ELSE words[1] \o <<" ">> \o Join(Tail(words))

\* str.lower on the Latin letters of the model
Lower(text) ==
    [i \in 1..Len(text) |->
        IF \E k \in 1..Len(UpperCase) : UpperCase[k] = text[i]
        THEN LowerCase[CHOOSE k \in 1..Len(UpperCase) : UpperCase[k] = text[i]]
        ELSE text[i]]

\* the pyarabic pipeline: tashkeel, tatweel, alef, hamza, teh marbuta, ligatures
_normalize_arabic(text) ==
    IF text = <<>> THEN <<>>
    ELSE LET t1 == RemoveChars(text, TASHKEEL)
             t2 == RemoveChars(t1, {"tatweel"})
             t3 == [i \in 1..Len(t2) |-> IF t2[i] \in ALEFAT THEN "alef" ELSE t2[i]]
             t4 == [i \in 1..Len(t3) |-> IF t3[i] \in HAMZAT THEN "hamza" ELSE t3[i]]
             t5 == ReplaceChar(t4, "teh_marbuta", "heh")
         IN ExpandChars(t5, LIGATURES, <<"lam", "alef">>)

RECURSIVE PhoneticLetters(_, _, _)
\* the letter substitutions, group g on, variant v on, in table order
PhoneticLetters(text, g, v) ==
    IF g > Len(PHONETIC_SIMILAR) THEN text
    ELSE IF v > Len(PHONETIC_SIMILAR[g][2]) THEN PhoneticLetters(text, g + 1, 1)
    ELSE PhoneticLetters(
             ReplaceChar(text, PHONETIC_SIMILAR[g][2][v], PHONETIC_SIMILAR[g][1]),
             g, v + 1)

\* the first variant of the list that occurs inside word, 0 when none does
FirstContained(variants, word) ==
    IF \E k \in 1..Len(variants) : Contains(variants[k], word)
    THEN CHOOSE k \in 1..Len(variants) :
            /\ Contains(variants[k], word)
            /\ \A j \in 1..(k - 1) : ~Contains(variants[j], word)
    ELSE 0

RECURSIVE FixWord(_, _, _)
\* the loop over FOOD_SPELLING_FIXES for one word, from entry e on; word_fixed
\* is always rebuilt from the word itself, and only an exact variant stops the loop
FixWord(word, e, word_fixed) ==
    IF e > Len(FOOD_SPELLING_FIXES) THEN word_fixed
    ELSE LET correct == FOOD_SPELLING_FIXES[e][1]
             variants == FOOD_SPELLING_FIXES[e][2]
             k == FirstContained(variants, word)
         IN IF \E i \in 1..Len(variants) : variants[i] = word THEN correct
            ELSE IF k # 0
                 THEN FixWord(word, e + 1, StrReplace(word, variants[k], correct))
                 ELSE FixWord(word, e + 1, word_fixed)

_phonetic_normalize(text) ==
    IF text = <<>> THEN <<>>
    ELSE LET result == PhoneticLetters(text, 1, 1)
             words == Split(result)
         IN Join([i \in 1..Len(words) |-> FixWord(words[i], 1, words[i])])

_normalize_text(text) ==
    IF text = <<>> THEN <<>>
    ELSE Lower(Join(Split(_phonetic_normalize(_normalize_arabic(text)))))

----------------------------------------------------------------------------
(* The catalog: data["items"] of the menu file, ids unique. *)

MasterIds == <<"main_016", "main_001", "app_001", "bev_001", "des_001",
               "sid_001", "bev_002", "main_007">>

MasterNamesAr ==
    <<<<"beh", "reh", "jeem", "reh", " ", "lam", "hah", "meem">>,
      <<"beh", "yeh", "teh", "zain", "alef">>,
      <<"hah", "meem", "sad">>,
      <<"kaf", "alef", "beh", "teh", "sheen", "yeh", "noon", "waw">>,
      <<"kaf", "noon", "alef", "feh", "teh_marbuta">>,
      <<"beh", "tah", "alef", "tah", "seen">>,
      <<"sheen", "alef", "yeh">>,
      <<"sheen", "alef", "waw", "reh", "meem", "alef">>>>

MasterNamesEn ==
    <<<<"B", "u", "r", "g", "e", "r">>, <<>>, <<>>, <<"C", "a", "b">>,
      <<>>, <<>>, <<>>, <<>>>>

MasterPrices == <<47, 35, 12, 14, 18, 9, 6, 22>>

MasterCategories == <<"main_dishes", "main_dishes", "appetizers", "beverages",
                      "desserts", "sides", "beverages", "main_dishes">>

MasterHasSizes == <<FALSE, TRUE, FALSE, TRUE, FALSE, FALSE, FALSE, FALSE>>

\* the menu file holding the first n items
_load_menu(n) ==
    [i \in 1..n |->
        [id |-> MasterIds[i], name_ar |-> MasterNamesAr[i],
         name_en |-> MasterNamesEn[i], price |-> MasterPrices[i],
         category |-> MasterCategories[i], sizes |-> MasterHasSizes[i]]]

CatalogSizes == 1..Min(MaxItems, Len(MasterIds))

\* the ids looked up: every id of the menu file and one that is in none
LookupIds == {MasterIds[i] : i \in 1..Len(MasterIds)} \cup {"main_999"}

\* the raw queries: the empty string, a phonetic variant, an absent dish, a
\* variant spelling of the food table
Queries == {<<>>,
            <<"beh", "reh", "qaf", "reh">>,
            <<"seen", "waw", "sheen", "yeh">>,
            <<"beh", "tah", "alef", "tah", "alef">>}

\* the queries of the cached tool: a phonetic variant and the spelling it
\* normalizes to
VariantProbe == <<"beh", "reh", "qaf", "reh">>
CanonicalProbe == <<"beh", "reh", "jeem", "reh">>
ProbeQueries == {VariantProbe, CanonicalProbe}

Digits == <<"0", "1", "2", "3", "4", "5", "6", "7", "8", "9">>

\* the k-th filler query, a text of its own
FillerQuery(k) ==
    <<"q", Digits[((k \div 100) % 10) + 1], Digits[((k \div 10) % 10) + 1],
      Digits[(k % 10) + 1]>>

\* the queries the threads ask: one per catalog item
ConcQueries == {VariantProbe, <<"beh", "yeh", "teh", "zain", "alef">>}

\* every query a search of the model is called with
SearchQueries ==
    Queries \cup ProbeQueries \cup ConcQueries
    \cup {FillerQuery(k) : k \in 1..MaxFillers}

\* _normalize_text on the queries and on their normalized texts, computed once
NormalizeTable ==
    [text \in SearchQueries \cup {_normalize_text(q) : q \in SearchQueries} |->
        _normalize_text(text)]

\* _normalize_text(text), read from the table where the table holds the text
NormalizedText(text) ==
    IF text \in DOMAIN NormalizeTable THEN NormalizeTable[text]
    ELSE _normalize_text(text)

----------------------------------------------------------------------------
(* What an index search can answer: _search_index gives top_k pairs          *)
(* (score, position), best score first; with fewer than top_k vectors in the *)
(* index FAISS fills the tail with position -1.                              *)

NameScores == {299999, 300000, 549999, 550000, 749999, 750000, 880000}
FullScores == {349999, 350000, 400000}

\* the non-increasing score lists of length m over levels
ScoreSeqs(levels, m) ==
    {s \in [1..m -> levels] : \A i \in 1..(m - 1) : s[i] >= s[i + 1]}

\* the answers of an index over n vectors asked for k hits
_search_index(n, k, levels) ==
    LET m == Min(n, k)
    IN {[i \in 1..k |->
            IF i <= m THEN <<s[i], (i - 1 + r) % n>>
            ELSE <<PlaceholderScore, 0 - 1>>] :
        s \in ScoreSeqs(levels, m), r \in 0..(n - 1)}

----------------------------------------------------------------------------
(* MenuSearchEngine. *)

\* a text that stands for Python's None where a string is expected
None_str == <<"None">>

_format_result(item, score) ==
    [id |-> item.id, name_ar |-> item.name_ar, name_en |-> item.name_en,
     price |-> item.price, category |-> item.category,
     has_sizes |-> item.sizes, score |-> Round2(score)]

_get_category_names(items) == {items[i].category : i \in 1..Len(items)}

\* a returned dict: keys lists the keys it holds, the other fields their values
Response(keys, found, confidence, action, count, items, top_match, query, cats, sd, mt) ==
    [keys |-> keys, found |-> found, confidence |-> confidence, action |-> action,
     count |-> count, items |-> items, top_match |-> top_match, query |-> query,
     available_categories |-> cats, searched_descriptions |-> sd,
     match_type |-> mt, error |-> ""]

FoundKeys == {"found", "confidence", "action", "count", "items", "top_match",
              "instruction"}

NoResponse == Response({}, FALSE, "", "", 0, <<>>, None_str, <<>>, {}, FALSE, "")

Returned(value) == [raised |-> "", value |-> value]
Raised(exc) == [raised |-> exc, value |-> NoResponse]

\* _keyword_search normalizes the query and then calls self._fix_arabic_spelling,
\* which MenuSearchEngine does not define: the call raises AttributeError
_keyword_search(items, query, top_k) ==
    LET query_normalized == _normalize_text(query)
    IN Raised("AttributeError")

best_name_score(name_results) ==
    IF name_results # <<>> THEN name_results[1][1] ELSE 0

best_name_idx(name_results) ==
    IF name_results # <<>> THEN name_results[1][2] ELSE 0 - 1

\* mutant: the high boundary exclusive
IsHigh_exclusive(name_results) ==
    /\ best_name_score(name_results) > HIGH_CONFIDENCE
    /\ best_name_idx(name_results) >= 0

IsHigh(name_results) ==
    /\ best_name_score(name_results) >= HIGH_CONFIDENCE
    /\ best_name_idx(name_results) >= 0

\* mutant: the medium tier tested against the high threshold
IsMedium_highThreshold(name_results) ==
    /\ best_name_score(name_results) >= HIGH_CONFIDENCE
    /\ best_name_idx(name_results) >= 0

\* mutant: the medium boundary exclusive
IsMedium_exclusive(name_results) ==
    /\ best_name_score(name_results) > MEDIUM_CONFIDENCE
    /\ best_name_idx(name_results) >= 0

IsMedium(name_results) ==
    /\ best_name_score(name_results) >= MEDIUM_CONFIDENCE
    /\ best_name_idx(name_results) >= 0

\* whether search goes on to the full index
SearchesFullIndex(name_results) == ~IsHigh(name_results) /\ ~IsMedium(name_results)

HighResponse(items, name_results) ==
    LET item == PyIndex(items, best_name_idx(name_results))
    IN Response(FoundKeys, TRUE, "high", "add_directly", 1,
                <<_format_result(item, best_name_score(name_results))>>,
                item.name_ar, <<>>, {}, FALSE, "")

\* mutant: the medium filter exclusive
MediumKeeps_exclusive(hit) == hit[1] > MEDIUM_CONFIDENCE /\ hit[2] >= 0

\* the hit (score, idx) kept by the medium tier
MediumKeeps(hit) == hit[1] >= MEDIUM_CONFIDENCE /\ hit[2] >= 0

MediumResponse(items, name_results) ==
    LET kept == SelectSeq(name_results, MediumKeeps)
        results == [i \in 1..Len(kept) |->
                       _format_result(PyIndex(items, kept[i][2]), kept[i][1])]
    IN Response(FoundKeys, TRUE, "medium", "show_options", Len(results), results,
                IF results # <<>> THEN results[1].name_ar ELSE None_str,
                <<>>, {}, FALSE, "")

\* mutant: the full-index filter with the name filter's 0.3
FullMergeKeeps_nameScore(hit) == hit[1] >= NAME_MERGE_SCORE /\ hit[2] >= 0

NameMergeKeeps(hit) == hit[2] >= 0 /\ hit[1] >= NAME_MERGE_SCORE
FullMergeKeeps(hit) == hit[1] >= FULL_MERGE_SCORE /\ hit[2] >= 0

RECURSIVE AppendUnseen(_, _, _)
\* mutant: every hit is appended, whether or not its id was seen
AppendUnseen_keepsAll(all_results, items, hits) ==
    all_results \o
        [i \in 1..Len(hits) |-> _format_result(PyIndex(items, hits[i][2]), hits[i][1])]

\* the loop that formats each hit and appends it unless its id was seen
AppendUnseen(all_results, items, hits) ==
    IF hits = <<>> THEN all_results
    ELSE LET result == _format_result(PyIndex(items, Head(hits)[2]), Head(hits)[1])
             seen_ids == {all_results[i].id : i \in 1..Len(all_results)}
         IN AppendUnseen(IF result.id \notin seen_ids
                         THEN Append(all_results, result) ELSE all_results,
                         items, Tail(hits))

\* all_results before the sort: name hits first, then full-index hits
MergedResults(items, name_results, full_results) ==
    AppendUnseen(
        AppendUnseen(<<>>, items,
                     SelectSeq(Take(name_results, NAME_MERGE_LIMIT), NameMergeKeeps)),
        items, SelectSeq(full_results, FullMergeKeeps))

\* mutant: the low tier answers with the high tier's action
LowResponse_addDirectly(all_results) ==
    LET sorted == SortByScoreDesc(all_results)
    IN Response(FoundKeys \cup {"searched_descriptions"}, TRUE, "low",
                "add_directly", Len(sorted), Take(sorted, LOW_ITEMS_LIMIT),
                sorted[1].name_ar, <<>>, {}, TRUE, "")

LowResponse(all_results) ==
    LET sorted == SortByScoreDesc(all_results)
    IN Response(FoundKeys \cup {"searched_descriptions"}, TRUE, "low",
                "show_options", Len(sorted), Take(sorted, LOW_ITEMS_LIMIT),
                sorted[1].name_ar, <<>>, {}, TRUE, "")

KeywordResponse(keyword_results) ==
    Response(FoundKeys \cup {"match_type"}, TRUE, "low", "show_options",
             Len(keyword_results), keyword_results, keyword_results[1].name_ar,
             <<>>, {}, FALSE, "keyword_fallback")

NotFoundResponse(items, query) ==
    Response({"found", "confidence", "action", "query", "message", "instruction",
              "available_categories"},
             FALSE, "none", "inform_not_available", 0, <<>>, None_str, query,
             _get_category_names(items), FALSE, "")

\* the text _build_name_index and _build_full_index hand to _batch_embed for a
\* catalog text: normalized once, and sent as it is
IndexedText(catalog_text) == _normalize_text(catalog_text)

\* the vector _build_name_index adds at each position, named by the fields of
\* the item it was embedded from (name_ar and name_en)
_build_name_index(items) ==
    [i \in 1..Len(items) |->
        [name_ar |-> items[i].name_ar, name_en |-> items[i].name_en]]

\* the vector _build_full_index adds at each position, named by the fields of
\* the item it was embedded from (the catalog here holds no description_ar)
_build_full_index(items) ==
    [i \in 1..Len(items) |->
        [name_ar |-> items[i].name_ar, name_en |-> items[i].name_en,
         category |-> items[i].category]]

\* mutant: the results are sorted through the catalog list itself, in place
ReadsCatalog_sortsInPlace ==
    /\ menu_items' = [i \in 1..Len(menu_items) |->
                         menu_items[Len(menu_items) + 1 - i]]
    /\ UNCHANGED <<name_index, full_index>>

\* search, _keyword_search and get_item_by_id read self.menu_items and the two
\* indexes and assign none of them, nor any field of an item
ReadsCatalog == UNCHANGED <<menu_items, name_index, full_index>>

\* the exception client.embeddings.create raises when the service fails
EmbeddingError == "APIError"

\* _get_embedding up to the request: the text is normalized and sent to the
\* embedding service in one request, which the service answers or fails
_get_embedding(text, service_answers) ==
    [sent |-> NormalizedText(text),
     raised |-> IF service_answers THEN "" ELSE EmbeddingError]

\* search(query, top_k); the embedding service answers the first `answered`
\* requests of the call, name_results and full_results are what the two index
\* searches then give.  The outcome, the stages entered in order, and the texts
\* sent to the embedding service.
search(items, query, top_k, name_results, full_results, answered) ==
    LET query_normalized == NormalizedText(query)
        name_embedding == _get_embedding(query_normalized, answered >= 1)
        full_embedding == _get_embedding(query_normalized, answered >= 2)
        all_results == MergedResults(items, name_results, full_results)
        keyword == _keyword_search(items, query, top_k)
    IN IF name_embedding.raised # ""
       THEN [outcome |-> Raised(name_embedding.raised),
             consulted |-> <<"name_index">>,
             embedded |-> <<name_embedding.sent>>]
       ELSE IF IsHigh(name_results)
       THEN [outcome |-> Returned(HighResponse(items, name_results)),
             consulted |-> <<"name_index">>,
             embedded |-> <<name_embedding.sent>>]
       ELSE IF IsMedium(name_results)
       THEN [outcome |-> Returned(MediumResponse(items, name_results)),
             consulted |-> <<"name_index">>,
             embedded |-> <<name_embedding.sent>>]
       ELSE IF full_embedding.raised # ""
       THEN [outcome |-> Raised(full_embedding.raised),
             consulted |-> <<"name_index", "full_index">>,
             embedded |-> <<name_embedding.sent, full_embedding.sent>>]
       ELSE IF all_results # <<>>
       THEN [outcome |-> Returned(LowResponse(all_results)),
             consulted |-> <<"name_index", "full_index">>,
             embedded |-> <<name_embedding.sent, full_embedding.sent>>]
       ELSE IF keyword.raised # ""
       THEN [outcome |-> keyword,
             consulted |-> <<"name_index", "full_index", "keyword">>,
             embedded |-> <<name_embedding.sent, full_embedding.sent>>]
       ELSE IF keyword.value # <<>>
       THEN [outcome |-> Returned(KeywordResponse(keyword.value)),
             consulted |-> <<"name_index", "full_index", "keyword">>,
             embedded |-> <<name_embedding.sent, full_embedding.sent>>]
       ELSE [outcome |-> Returned(NotFoundResponse(items, query)),
             consulted |-> <<"name_index", "full_index", "keyword">>,
             embedded |-> <<name_embedding.sent, full_embedding.sent>>]

\* the number of embedding requests the service answers during one search
ServiceAnswers == 0..2

\* mutant: the comparison negated, the first item with another id is returned
get_item_by_id_negated(items, item_id) ==
    IF \E i \in 1..Len(items) : items[i].id # item_id
    THEN [is_none |-> FALSE,
          item |-> items[CHOOSE i \in 1..Len(items) :
                            /\ items[i].id # item_id
                            /\ \A j \in 1..(i - 1) : items[j].id = item_id]]
    ELSE [is_none |-> TRUE, item |-> [id |-> ""]]

\* get_item_by_id: the first item of the catalog with that id, or None
get_item_by_id(items, item_id) ==
    IF \E i \in 1..Len(items) : items[i].id = item_id
    THEN [is_none |-> FALSE,
          item |-> items[CHOOSE i \in 1..Len(items) :
                            /\ items[i].id = item_id
                            /\ \A j \in 1..(i - 1) : items[j].id # item_id]]
    ELSE [is_none |-> TRUE, item |-> [id |-> ""]]

\* no call pending
NoCall == [op |-> "", query |-> <<>>, top_k |-> 0, name_results |-> <<>>,
           full_results |-> <<>>, item_id |-> "", embedded |-> <<>>,
           before |-> <<>>]

----------------------------------------------------------------------------
(* core/session.py and main.py: the session and the agent that gets the next *)
(* message.                                                                  *)

\* Python's None where a string is expected
None == "None"

\* Session(...): the defaults of the dataclass
NewSession ==
    [current_agent |-> "greeting", intent |-> None, order_mode |-> "delivery",
     location_confirmed |-> FALSE, address_complete |-> FALSE,
     order_items |-> <<>>, last_offered_items |-> <<>>]

\* _determine_current_agent(session)
_determine_current_agent(s) ==
    IF s.current_agent # ""
    THEN IF s.current_agent = "location"
         THEN IF s.order_mode = "pickup"
              THEN IF s.order_items # <<>> THEN "checkout" ELSE "order"
              ELSE IF ~s.location_confirmed THEN "location"
              ELSE IF ~s.address_complete THEN "location"
              ELSE IF s.order_items # <<>> THEN "checkout" ELSE "order"
         ELSE IF s.current_agent = "checkout" /\ s.order_items # <<>>
         THEN "checkout"
         ELSE IF s.current_agent = "order"
         THEN IF s.order_mode = "delivery" /\ ~s.location_confirmed
              THEN "location" ELSE "order"
         ELSE s.current_agent
    ELSE IF s.intent = None THEN "greeting"
    ELSE IF s.order_mode = "delivery"
            /\ (~s.location_confirmed \/ ~s.address_complete)
    THEN "location"
    ELSE LET location_ready ==
                 (s.location_confirmed /\ s.address_complete)
                 \/ s.order_mode = "pickup"
         IN IF s.order_items # <<>> /\ location_ready THEN "checkout"
            ELSE IF location_ready THEN "order"
            ELSE "greeting"

----------------------------------------------------------------------------
(* tools/order.py: the order tools.  Each gives the session after the call   *)
(* and what the call returned or raised.                                     *)

\* None where an int is expected (quantity, item_index)
NoneInt == 0 - 999

\* the size names of the menu file
Sizes == {"small", "medium", "large"}

\* item["price"][size] of an item whose price is a dict of sizes
SizePrice(item, size) ==
    item.price + (IF size = "small" THEN 0 - 5 ELSE IF size = "large" THEN 5 ELSE 0)

\* the dict an order tool returns: key is "success" or "matched"
ToolResult(key, ok, error) == [key |-> key, ok |-> ok, error |-> error]

\* OrderItem(...)
OrderItem(item_id, name_ar, quantity, unit_price, size, notes) ==
    [item_id |-> item_id, name_ar |-> name_ar, quantity |-> quantity,
     unit_price |-> unit_price, size |-> size, notes |-> notes]

RECURSIVE LStrip(_)
LStrip(text) ==
    IF text # <<>> /\ Head(text) \in Whitespace THEN LStrip(Tail(text)) ELSE text

RECURSIVE RStrip(_)
RStrip(text) ==
    IF text # <<>> /\ text[Len(text)] \in Whitespace
    THEN RStrip(SubSeq(text, 1, Len(text) - 1)) ELSE text

\* Python's  text.strip()
Strip(text) == RStrip(LStrip(text))

\* _normalize_for_comparison(text)
_normalize_for_comparison(text) ==
    IF text = <<>> THEN <<>>
    ELSE LET t1 == RemoveChars(text, TASHKEEL)
             t2 == [i \in 1..Len(t1) |-> IF t1[i] \in ALEFAT THEN "alef" ELSE t1[i]]
             t3 == [i \in 1..Len(t2) |-> IF t2[i] \in HAMZAT THEN "hamza" ELSE t2[i]]
             t4 == ReplaceChar(t3, "teh_marbuta", "heh")
         IN Strip(Lower(t4))

\* the first position of seq that satisfies Test, 0-based, or -1
FirstIndex(seq, Test(_)) ==
    IF \E i \in 1..Len(seq) : Test(seq[i])
    THEN (CHOOSE i \in 1..Len(seq) :
              Test(seq[i]) /\ \A j \in 1..(i - 1) : ~Test(seq[j])) - 1
    ELSE 0 - 1

\* the two loops of remove_from_order and modify_order_item that look an
\* order line up by name: direct containment first, then word by word
FindByName(order_items, item_name) ==
    LET search_name == Lower(Strip(item_name))
        Direct(order_item) ==
            \/ Contains(search_name, Lower(order_item.name_ar))
            \/ Contains(Lower(order_item.name_ar), search_name)
        Partial(order_item) ==
            LET item_words == Split(Lower(order_item.name_ar))
            IN \E w \in 1..Len(item_words) :
                  \/ Contains(search_name, item_words[w])
                  \/ Contains(item_words[w], search_name)
        direct == FirstIndex(order_items, Direct)
    IN IF direct >= 0 THEN direct ELSE FirstIndex(order_items, Partial)

\* the part remove_from_order and modify_order_item share: the 0-based index
\* of the order line meant, or the error returned instead
LocateOrderItem(order_items, item_name, item_index) ==
    IF order_items = <<>> THEN [idx |-> 0 - 1, error |-> "empty_order"]
    ELSE IF item_name # None_str /\ item_name # <<>>
    THEN LET idx == FindByName(order_items, item_name)
         IN [idx |-> idx,
             error |-> IF idx < 0 THEN "item_not_found_in_order" ELSE ""]
    ELSE IF item_index # NoneInt
    THEN LET idx == item_index - 1
         IN IF idx < 0 \/ idx >= Len(order_items)
            THEN [idx |-> 0 - 1, error |-> "invalid_index"]
            ELSE [idx |-> idx, error |-> ""]
    ELSE [idx |-> 0 - 1, error |-> "no_item_specified"]

\* add_to_order(item_id, quantity, size, notes); search_outcome is what
\* menu_engine.search(item_id, top_k=1) does when the id is not in the catalog
add_to_order(s, engine, items, item_id, quantity, size, notes, search_outcome) ==
    LET by_id == get_item_by_id(items, item_id)
        best_match == search_outcome.value.items[1]
        by_search == /\ by_id.is_none
                     /\ search_outcome.value.found
                     /\ search_outcome.value.items # <<>>
                     /\ best_match.score >= 700000
        found == IF by_search THEN get_item_by_id(items, best_match.id) ELSE by_id
        item == found.item
        Fail(error) ==
            [session |-> s, outcome |-> Returned(ToolResult("success", FALSE, error))]
    IN IF engine = "None" THEN Fail("menu_engine_not_initialized")
       ELSE IF by_id.is_none /\ search_outcome.raised # ""
       THEN [session |-> s, outcome |-> search_outcome]
       ELSE IF found.is_none THEN Fail("item_not_found")
       ELSE IF quantity < 1 \/ quantity > 10 THEN Fail("invalid_quantity")
       ELSE IF ~item.sizes /\ size # None /\ size # "" THEN Fail("invalid_size")
       ELSE LET base_price == IF item.sizes
                              THEN IF size \in Sizes THEN SizePrice(item, size)
                                   ELSE SizePrice(item, "medium")
                              ELSE item.price
                order_item == OrderItem(item.id, item.name_ar, quantity,
                                        base_price, size, notes)
            IN [session |-> [s EXCEPT !.order_items = Append(@, order_item)],
                outcome |-> Returned(ToolResult("success", TRUE, ""))]

\* remove_from_order(item_name, item_index)
remove_from_order(s, item_name, item_index) ==
    LET at == LocateOrderItem(s.order_items, item_name, item_index)
    IN IF at.error # ""
       THEN [session |-> s,
             outcome |-> Returned(ToolResult("success", FALSE, at.error))]
       ELSE [session |->
                 [s EXCEPT !.order_items =
                     SubSeq(@, 1, at.idx) \o SubSeq(@, at.idx + 2, Len(@))],
             outcome |-> Returned(ToolResult("success", TRUE, ""))]

\* modify_order_item(item_name, item_index, quantity, size, notes): the order
\* line is changed in place, field by field, as the statements run
modify_order_item(s, engine, items, item_name, item_index, quantity, size, notes) ==
    LET at == LocateOrderItem(s.order_items, item_name, item_index)
        item == s.order_items[at.idx + 1]
        Stored(order_item) == [s EXCEPT !.order_items[at.idx + 1] = order_item]
        Fail(session_then, error) ==
            [session |-> session_then,
             outcome |-> Returned(ToolResult("success", FALSE, error))]
        with_quantity == IF quantity # NoneInt
                         THEN [item EXCEPT !.quantity = quantity] ELSE item
        menu_item == get_item_by_id(items, item.item_id)
        size_offered == /\ ~menu_item.is_none
                        /\ menu_item.item.sizes
                        /\ size \in Sizes
        with_size == IF size # None /\ size_offered
                     THEN [with_quantity EXCEPT
                              !.size = size,
                              !.unit_price = SizePrice(menu_item.item, size)]
                     ELSE with_quantity
        with_notes == IF notes # None_str
                      THEN [with_size EXCEPT !.notes = notes] ELSE with_size
        changes == (IF quantity # NoneInt THEN 1 ELSE 0)
                   + (IF size # None /\ size_offered THEN 1 ELSE 0)
                   + (IF notes # None_str THEN 1 ELSE 0)
    IN IF engine = "None" THEN Fail(s, "menu_engine_not_initialized")
       ELSE IF at.error # "" THEN Fail(s, at.error)
       ELSE IF quantity # NoneInt /\ (quantity < 1 \/ quantity > 10)
       THEN Fail(s, "invalid_quantity")
       ELSE IF size # None /\ ~size_offered /\ size # ""
       THEN Fail(Stored(with_quantity), "invalid_size")
       ELSE IF changes = 0 THEN Fail(s, "no_changes")
       ELSE [session |-> Stored(with_notes),
             outcome |-> Returned(ToolResult("success", TRUE, ""))]

\* store_offered_items(items_json) for a JSON list of items
store_offered_items(s, offered) ==
    [session |-> [s EXCEPT !.last_offered_items = Take(offered, 5)],
     outcome |-> Returned(ToolResult("success", TRUE, ""))]

\* select_from_offered(selection_hint, quantity): the first offered item whose
\* name matches the hint and whose id is in the catalog is added
select_from_offered(s, engine, items, selection_hint, quantity) ==
    LET hint == _normalize_for_comparison(selection_hint)
        Matches(offered_item) ==
            LET item_name == _normalize_for_comparison(offered_item.name_ar)
            IN /\ Contains(hint, item_name) \/ Contains(item_name, hint)
               /\ offered_item.id # ""
               /\ engine # "None"
               /\ ~get_item_by_id(items, offered_item.id).is_none
        at == FirstIndex(s.last_offered_items, Matches)
        full_item == get_item_by_id(items, s.last_offered_items[at + 1].id).item
        price == IF full_item.sizes THEN SizePrice(full_item, "medium")
                 ELSE full_item.price
    IN IF s.last_offered_items = <<>>
       THEN [session |-> s,
             outcome |-> Returned(ToolResult("matched", FALSE, "no_offers"))]
       ELSE IF at < 0
       THEN [session |-> s,
             outcome |-> Returned(ToolResult("matched", FALSE, ""))]
       ELSE [session |->
                 [s EXCEPT !.order_items =
                               Append(@, OrderItem(full_item.id, full_item.name_ar,
                                                   quantity, price, None, <<>>)),
                           !.last_offered_items = <<>>],
             outcome |-> Returned(ToolResult("matched", TRUE, ""))]

----------------------------------------------------------------------------
(* tools/menu.py: search_menu and the cache in front of the engine. *)

\* the clock when the process starts: one second before a bucket ends
StartTime == 4 * CACHE_BUCKET_SECONDS - 1

ClockSteps == {1, CACHE_BUCKET_SECONDS}

_get_cache_bucket(t) == t \div CACHE_BUCKET_SECONDS

\* the dict _search_menu_cached returns while no engine is installed
NotInitialized ==
    [NoResponse EXCEPT !.keys = {"found", "error", "message"},
                       !.error = "menu_engine_not_initialized"]

\* the body of _search_menu_cached; engine_outcome is what menu_engine.search
\* does for the query
_search_menu_cached(engine, engine_outcome) ==
    IF engine = "None" THEN Returned(NotInitialized) ELSE engine_outcome

\* the position of key in the cache, 0 when it is not cached
lru_find(cache, key) ==
    IF \E i \in 1..Len(cache) : cache[i].key = key
    THEN CHOOSE i \in 1..Len(cache) : cache[i].key = key
    ELSE 0

\* a hit makes the entry the most recently used
lru_hit(cache, i) ==
    SubSeq(cache, 1, i - 1) \o SubSeq(cache, i + 1, Len(cache)) \o <<cache[i]>>

\* a new entry; a full cache drops its least recently used entry
lru_store(cache, key, value) ==
    Append(IF Len(cache) >= maxsize THEN Tail(cache) ELSE cache,
           [key |-> key, value |-> value])

\* mutant: a raised exception is cached like a returned value
lru_cache_storesFailure(cache, key, computed) ==
    LET i == lru_find(cache, key)
    IN IF i # 0
       THEN [outcome |-> Returned(cache[i].value), cache |-> lru_hit(cache, i),
             called |-> FALSE]
       ELSE [outcome |-> computed, cache |-> lru_store(cache, key, computed.value),
             called |-> TRUE]

\* functools.lru_cache around a function whose call would give computed:
\* a hit returns the stored value, a miss calls the function and stores what it
\* returns, an exception is stored nowhere
lru_cache(cache, key, computed) ==
    LET i == lru_find(cache, key)
    IN IF i # 0
       THEN [outcome |-> Returned(cache[i].value), cache |-> lru_hit(cache, i),
             called |-> FALSE]
       ELSE IF computed.raised # ""
       THEN [outcome |-> computed, cache |-> cache, called |-> TRUE]
       ELSE [outcome |-> computed, cache |-> lru_store(cache, key, computed.value),
             called |-> TRUE]

\* mutant: the key leaves the query out
_make_key_bucketOnly(query, cache_bucket) == <<<<>>, cache_bucket>>

\* the key lru_cache makes of the arguments of _search_menu_cached
_make_key(query, cache_bucket) == <<query, cache_bucket>>

\* mutant: the cache is not cleared when the bucket changes
search_menu_noClear(query, t, timestamp, cache, computed) ==
    LET current_bucket == _get_cache_bucket(t)
        r == lru_cache(cache, _make_key(query, current_bucket), computed)
    IN [timestamp |-> current_bucket, cache |-> r.cache, outcome |-> r.outcome,
        called |-> r.called, bucket |-> current_bucket]

\* mutant: _cache_timestamp is never set to the current bucket
search_menu_noStamp(query, t, timestamp, cache, computed) ==
    LET current_bucket == _get_cache_bucket(t)
        kept == IF current_bucket # timestamp THEN <<>> ELSE cache
        r == lru_cache(kept, _make_key(query, current_bucket), computed)
    IN [timestamp |-> timestamp, cache |-> r.cache, outcome |-> r.outcome,
        called |-> r.called, bucket |-> current_bucket]

\* search_menu(query) at time t
search_menu(query, t, timestamp, cache, computed) ==
    LET current_bucket == _get_cache_bucket(t)
        kept == IF current_bucket # timestamp THEN <<>> ELSE cache
        r == lru_cache(kept, _make_key(query, current_bucket), computed)
    IN [timestamp |-> current_bucket, cache |-> r.cache, outcome |-> r.outcome,
        called |-> r.called, bucket |-> current_bucket]

----------------------------------------------------------------------------
(* The cached tool as a state machine: a probe query asked again and again, *)
(* a stream of distinct filler queries, the clock, the engine's installation. *)



\* the fillers sent so far
fillers_sent == tool_call.fillers

\* what the indexes answer for a probe query
ProbeNameResults == _search_index(Len(menu_items), 5, {299999, 750000, 880000})
ProbeFullResults == _search_index(Len(menu_items), 5, {349999})

\* what the name index answers for a filler query: a direct hit on the first item
FillerNameResults ==
    [i \in 1..5 |-> IF i <= Min(Len(menu_items), 5) THEN <<750000, i - 1>>
                    ELSE <<PlaceholderScore, 0 - 1>>]

NeverSeen == [bucket |-> 0 - 1, outcome |-> Returned(NoResponse), others |-> {}]

NoToolCall == [query |-> <<>>, bucket |-> 0 - 1, engine_called |-> FALSE,
               prev_bucket |-> 0 - 1, prev_outcome |-> Returned(NoResponse),
               others_between |-> 0, fillers |-> 0, ticks |-> 0,
               stamp_before |-> 0, entries_before |-> 0, missed |-> FALSE,
               engine |-> "None", consulted |-> <<>>, embedded |-> <<>>,
               seen_before |-> [q \in ProbeQueries |-> NeverSeen]]

Threads == 1..MaxThreads

\* the result a thread holds: a response, and the query and bucket of the call
\* that computed it
NoResult == [response |-> NoResponse, query |-> <<>>, bucket |-> 0 - 1]

\* a thread outside search_menu
NoThread == [pc |-> "idle", query |-> <<>>, current_bucket |-> 0 - 1,
             result |-> NoResult, missed |-> FALSE]

CacheInit ==
    /\ menu_items = _load_menu(1)
    /\ name_index = _build_name_index(menu_items)
    /\ full_index = _build_full_index(menu_items)
    /\ pc = "idle"
    /\ call = NoCall
    /\ outcome = Returned(NoResponse)
    /\ consulted = <<>>
    /\ menu_engine = "None"
    /\ now = StartTime
    /\ _cache_timestamp = 0
    /\ lru = <<>>
    /\ tool_call = NoToolCall
    /\ seen = [q \in ProbeQueries |-> NeverSeen]
    /\ threads = [t \in Threads |-> NoThread]
    /\ session = NewSession

\* one search_menu call, the engine answering engine_search if it is asked
SearchMenuCall(query, engine_search, is_filler) ==
    LET engine_outcome == engine_search.outcome
        computed == _search_menu_cached(menu_engine, engine_outcome)
        r == search_menu(query, now, _cache_timestamp, lru, computed)
    IN /\ _cache_timestamp' = r.timestamp
       /\ lru' = r.cache
       /\ outcome' = r.outcome
       /\ tool_call' =
            [query |-> query, bucket |-> r.bucket,
             engine_called |-> r.called /\ menu_engine # "None",
             prev_bucket |-> IF is_filler THEN 0 - 1 ELSE seen[query].bucket,
             prev_outcome |-> IF is_filler THEN Returned(NoResponse)
                              ELSE seen[query].outcome,
             others_between |-> IF is_filler THEN 0
                                ELSE Cardinality(seen[query].others),
             fillers |-> tool_call.fillers + (IF is_filler THEN 1 ELSE 0),
             ticks |-> tool_call.ticks,
             stamp_before |-> _cache_timestamp, entries_before |-> Len(lru),
             missed |-> r.called, engine |-> menu_engine, seen_before |-> seen,
             consulted |-> IF r.called /\ menu_engine # "None"
                           THEN engine_search.consulted ELSE <<>>,
             embedded |-> IF r.called /\ menu_engine # "None"
                          THEN engine_search.embedded ELSE <<>>]
       /\ seen' = [p \in ProbeQueries |->
                     IF p = query
                     THEN [bucket |-> r.bucket, outcome |-> r.outcome, others |-> {}]
                     ELSE [seen[p] EXCEPT !.others = @ \cup {query}]]
       /\ UNCHANGED <<menu_items, name_index, full_index, pc, call, consulted>>
       /\ UNCHANGED <<menu_engine, now, threads, session>>

\* a probe query is asked for the first time, again at once, or again after
\* maxsize - 1 or maxsize filler queries; the canonical spelling is asked
\* before the filler stream starts
ProbeGaps == {0, maxsize - 1, maxsize}

SearchMenuProbe(query) ==
    /\ Cardinality(seen[query].others \ ProbeQueries) \in ProbeGaps
    /\ query = CanonicalProbe => fillers_sent = 0
    /\ \E answered \in ServiceAnswers :
         \E name_results \in (IF answered >= 1 THEN ProbeNameResults ELSE {<<>>}) :
         \E full_results \in (IF answered >= 2 THEN ProbeFullResults ELSE {<<>>}) :
            SearchMenuCall(query,
                           search(menu_items, query, 5, name_results, full_results,
                                  answered),
                           FALSE)

\* the filler stream, once the engine is installed, in the runs that ask one
\* spelling only
SearchMenuFiller ==
    /\ fillers_sent < MaxFillers
    /\ menu_engine # "None"
    /\ seen[CanonicalProbe].bucket = 0 - 1
    /\ SearchMenuCall(FillerQuery(fillers_sent + 1),
                      search(menu_items, FillerQuery(fillers_sent + 1), 5,
                             FillerNameResults, <<>>, 2),
                      TRUE)

\* main.py installs the engine, before the filler stream starts
InstallEngine ==
    /\ menu_engine = "None"
    /\ fillers_sent = 0
    /\ menu_engine' = "MenuSearchEngine"
    /\ UNCHANGED <<engine_vars, now, _cache_timestamp, lru, tool_call, seen, threads>>
    /\ UNCHANGED session

\* the clock advances, before the filler stream starts
Tick(step) ==
    /\ tool_call.ticks < MaxTicks
    /\ fillers_sent = 0
    /\ now' = now + step
    /\ tool_call' = [tool_call EXCEPT !.ticks = @ + 1]
    /\ UNCHANGED <<engine_vars, menu_engine, _cache_timestamp, lru, seen, threads>>
    /\ UNCHANGED session

CacheNext ==
    \/ \E query \in ProbeQueries : SearchMenuProbe(query)
    \/ SearchMenuFiller
    \/ InstallEngine
    \/ \E step \in ClockSteps : Tick(step)

SpecCache == CacheInit /\ [][CacheNext]_vars

----------------------------------------------------------------------------
(* search_menu called by several threads at once: each statement of its body *)
(* is a step of its own, and a call of the lru_cache wrapper is two steps,   *)
(* the lookup (followed on a miss by the wrapped function, which touches no  *)
(* shared state) and the store, as in functools.                             *)


\* the position of the item the name index gives for a query
ConcPosition(query) == IF query = VariantProbe THEN 0 ELSE 1

\* what the name index answers for a query: a direct hit on its item
ConcNameResults(query) ==
    [i \in 1..5 |-> IF i = 1 THEN <<880000, ConcPosition(query)>>
                    ELSE IF i = 2 THEN <<299999, 1 - ConcPosition(query)>>
                    ELSE <<PlaceholderScore, 0 - 1>>]

\* the catalog the threads search
ConcCatalog == _load_menu(2)

\* menu_engine.search(query, top_k=5) for each query: the catalog and the
\* indexes do not change, the same query gets the same response
EngineResponses ==
    [query \in ConcQueries |->
        search(ConcCatalog, query, 5, ConcNameResults(query), <<>>, 2).outcome.value]

EngineSearch(query) == EngineResponses[query]

ConcInit ==
    /\ menu_items = ConcCatalog
    /\ name_index = _build_name_index(menu_items)
    /\ full_index = _build_full_index(menu_items)
    /\ pc = "idle"
    /\ call = NoCall
    /\ outcome = Returned(NoResponse)
    /\ consulted = <<>>
    /\ menu_engine = "MenuSearchEngine"
    /\ now = StartTime
    /\ _cache_timestamp = 0
    /\ lru = <<>>
    /\ tool_call = NoToolCall
    /\ seen = [q \in ProbeQueries |-> NeverSeen]
    /\ threads = [t \in Threads |-> NoThread]
    /\ session = NewSession

ConcUnchanged == <<engine_vars, menu_engine, tool_call, seen, session>>

\* a thread enters search_menu(query): current_bucket = _get_cache_bucket()
ThreadCall(t, query) ==
    /\ threads[t].pc = "idle"
    /\ threads' = [threads EXCEPT ![t] =
                      [NoThread EXCEPT !.pc = "check", !.query = query,
                                       !.current_bucket = _get_cache_bucket(now)]]
    /\ UNCHANGED <<ConcUnchanged, now, _cache_timestamp, lru>>

\* if current_bucket != _cache_timestamp
ThreadCheck(t) ==
    /\ threads[t].pc = "check"
    /\ threads' = [threads EXCEPT ![t].pc =
                       IF threads[t].current_bucket # _cache_timestamp
                       THEN "clear" ELSE "lookup"]
    /\ UNCHANGED <<ConcUnchanged, now, _cache_timestamp, lru>>

\* _search_menu_cached.cache_clear()
ThreadClear(t) ==
    /\ threads[t].pc = "clear"
    /\ lru' = <<>>
    /\ threads' = [threads EXCEPT ![t].pc = "stamp"]
    /\ UNCHANGED <<ConcUnchanged, now, _cache_timestamp>>

\* _cache_timestamp = current_bucket
ThreadStamp(t) ==
    /\ threads[t].pc = "stamp"
    /\ _cache_timestamp' = threads[t].current_bucket
    /\ threads' = [threads EXCEPT ![t].pc = "lookup"]
    /\ UNCHANGED <<ConcUnchanged, now, lru>>

\* the wrapper looks the key up: a hit returns the stored value, on a miss
\* the wrapper calls _search_menu_cached(query, current_bucket)
ThreadLookup(t) ==
    LET key == _make_key(threads[t].query, threads[t].current_bucket)
        i == lru_find(lru, key)
    IN /\ threads[t].pc = "lookup"
       /\ IF i # 0
          THEN /\ lru' = lru_hit(lru, i)
               /\ threads' = [threads EXCEPT ![t].pc = "done",
                                             ![t].result = lru[i].value]
          ELSE /\ lru' = lru
               /\ threads' = [threads EXCEPT
                                 ![t].pc = "store",
                                 ![t].missed = TRUE,
                                 ![t].result =
                                     [response |-> EngineSearch(threads[t].query),
                                      query |-> threads[t].query,
                                      bucket |-> threads[t].current_bucket]]
       /\ UNCHANGED <<ConcUnchanged, now, _cache_timestamp>>

\* the wrapper stores the result unless the key was stored meanwhile
ThreadStore(t) ==
    LET key == _make_key(threads[t].query, threads[t].current_bucket)
    IN /\ threads[t].pc = "store"
       /\ lru' = IF lru_find(lru, key) # 0 THEN lru
                 ELSE lru_store(lru, key, threads[t].result)
       /\ threads' = [threads EXCEPT ![t].pc = "done"]
       /\ UNCHANGED <<ConcUnchanged, now, _cache_timestamp>>

\* the caller takes the result
ThreadReturn(t) ==
    /\ threads[t].pc = "done"
    /\ threads' = [threads EXCEPT ![t] = NoThread]
    /\ UNCHANGED <<ConcUnchanged, now, _cache_timestamp, lru>>

\* the clock passes into the next bucket
ClockRollsOver ==
    /\ tool_call.ticks < MaxRollovers
    /\ now' = now + CACHE_BUCKET_SECONDS
    /\ tool_call' = [tool_call EXCEPT !.ticks = @ + 1]
    /\ UNCHANGED <<engine_vars, menu_engine, _cache_timestamp, lru, seen, threads>>
    /\ UNCHANGED session

ConcNext ==
    \/ \E t \in Threads, query \in ConcQueries : ThreadCall(t, query)
    \/ \E t \in Threads : ThreadCheck(t)
    \/ \E t \in Threads : ThreadClear(t)
    \/ \E t \in Threads : ThreadStamp(t)
    \/ \E t \in Threads : ThreadLookup(t)
    \/ \E t \in Threads : ThreadStore(t)
    \/ \E t \in Threads : ThreadReturn(t)
    \/ ClockRollsOver

SpecConc == ConcInit /\ [][ConcNext]_vars

----------------------------------------------------------------------------
(* The engine as a state machine: one call at a time, its outcome kept until *)
(* the caller takes it.                                                      *)

Init ==
    /\ \E n \in CatalogSizes : menu_items = _load_menu(n)
    /\ name_index = _build_name_index(menu_items)
    /\ full_index = _build_full_index(menu_items)
    /\ pc = "idle"
    /\ call = NoCall
    /\ outcome = Returned(NoResponse)
    /\ consulted = <<>>
    /\ menu_engine = "MenuSearchEngine"
    /\ now = StartTime
    /\ _cache_timestamp = 0
    /\ lru = <<>>
    /\ tool_call = NoToolCall
    /\ seen = [q \in ProbeQueries |-> NeverSeen]
    /\ threads = [t \in Threads |-> NoThread]
    /\ session = NewSession

Search(query, top_k) ==
    /\ pc = "idle"
    /\ \E answered \in ServiceAnswers :
         \E name_results \in
               IF answered >= 1
               THEN _search_index(Len(menu_items), top_k, NameScores)
               ELSE {<<>>} :
         \E full_results \in
               IF answered >= 2 /\ SearchesFullIndex(name_results)
               THEN _search_index(Len(menu_items), top_k, FullScores)
               ELSE {<<>>} :
            LET r == search(menu_items, query, top_k, name_results, full_results,
                            answered)
            IN /\ call' = [NoCall EXCEPT !.op = "search", !.query = query,
                                         !.top_k = top_k,
                                         !.name_results = name_results,
                                         !.full_results = full_results,
                                         !.embedded = r.embedded]
               /\ outcome' = r.outcome
               /\ consulted' = r.consulted
    /\ pc' = "search"
    /\ ReadsCatalog
    /\ UNCHANGED <<cache_vars, session>>

GetItemById(item_id) ==
    /\ pc = "idle"
    /\ call' = [NoCall EXCEPT !.op = "get_item_by_id", !.item_id = item_id]
    /\ outcome' = Returned(get_item_by_id(menu_items, item_id))
    /\ consulted' = <<>>
    /\ pc' = "get_item_by_id"
    /\ ReadsCatalog
    /\ UNCHANGED <<cache_vars, session>>

\* the caller takes the outcome
Return ==
    /\ pc # "idle"
    /\ pc' = "idle"
    /\ call' = NoCall
    /\ outcome' = Returned(NoResponse)
    /\ consulted' = <<>>
    /\ UNCHANGED <<menu_items, name_index, full_index, cache_vars, session>>

Next ==
    \/ \E query \in Queries, top_k \in TopKs : Search(query, top_k)
    \/ \E item_id \in LookupIds : GetItemById(item_id)
    \/ Return

Spec == Init /\ [][Next]_vars

----------------------------------------------------------------------------
(* The text functions called on their own: _normalize_text on the spellings  *)
(* of the two tables, _keyword_search on queries that overlap the catalog.   *)

\* the canonical spellings and the variants of FOOD_SPELLING_FIXES
TableWords ==
    UNION {{FOOD_SPELLING_FIXES[e][1]} \cup
           {FOOD_SPELLING_FIXES[e][2][k] : k \in 1..Len(FOOD_SPELLING_FIXES[e][2])} :
           e \in 1..Len(FOOD_SPELLING_FIXES)}

\* the letters of PHONETIC_SIMILAR, each as a text of one letter
TableLetters ==
    UNION {{<<PHONETIC_SIMILAR[g][1]>>} \cup
           {<<PHONETIC_SIMILAR[g][2][v]>> : v \in 1..Len(PHONETIC_SIMILAR[g][2])} :
           g \in 1..Len(PHONETIC_SIMILAR)}

\* the spellings of the first two table entries, run together in the words
\* that hold more than one variant
JoinedWords ==
    {FOOD_SPELLING_FIXES[e][2][k] : e \in 1..2, k \in 1..3} \cup
    {FOOD_SPELLING_FIXES[e][1] : e \in 1..2}

\* the texts normalized: table words and letters, the catalog's names, a table
\* word after a table word, and two spellings run together in one word
Texts ==
    TableWords \cup TableLetters
    \cup {MasterNamesAr[i] : i \in 1..Len(MasterNamesAr)}
    \cup {MasterNamesEn[i] : i \in 1..Len(MasterNamesEn)}
    \cup {a \o <<" ">> \o b : a \in TableWords, b \in JoinedWords}
    \cup {a \o b : a \in JoinedWords, b \in JoinedWords}

\* the queries given to the keyword matcher: a catalog name as it is written,
\* a phonetic variant of a word of a name, an English name in capitals, an
\* absent dish
KeywordQueries ==
    {<<"hah", "meem", "sad">>,
     <<"beh", "reh", "qaf", "reh">>,
     <<"beh", "reh", "jeem", "reh", " ", "lam", "hah", "meem", " ", "kaf",
       "beh", "yeh", "reh">>,
     <<"C", "A", "B">>,
     <<"seen", "waw", "sheen", "yeh">>}

TextInit ==
    /\ menu_items = _load_menu(Min(MaxItems, Len(MasterIds)))
    /\ name_index = _build_name_index(menu_items)
    /\ full_index = _build_full_index(menu_items)
    /\ pc = "idle"
    /\ call = NoCall
    /\ outcome = Returned(NoResponse)
    /\ consulted = <<>>
    /\ menu_engine = "MenuSearchEngine"
    /\ now = StartTime
    /\ _cache_timestamp = 0
    /\ lru = <<>>
    /\ tool_call = NoToolCall
    /\ seen = [q \in ProbeQueries |-> NeverSeen]
    /\ threads = [t \in Threads |-> NoThread]
    /\ session = NewSession

\* _normalize_text(text)
NormalizeText(text) ==
    /\ pc = "idle"
    /\ call' = [NoCall EXCEPT !.op = "_normalize_text", !.query = text]
    /\ outcome' = [raised |-> "", value |-> _normalize_text(text)]
    /\ consulted' = <<>>
    /\ pc' = "_normalize_text"
    /\ UNCHANGED <<menu_items, name_index, full_index, cache_vars, session>>

\* _keyword_search(query, top_k)
KeywordSearch(query, top_k) ==
    /\ pc = "idle"
    /\ call' = [NoCall EXCEPT !.op = "_keyword_search", !.query = query,
                              !.top_k = top_k]
    /\ outcome' = _keyword_search(menu_items, query, top_k)
    /\ consulted' = <<"keyword">>
    /\ pc' = "_keyword_search"
    /\ ReadsCatalog
    /\ UNCHANGED <<cache_vars, session>>

TextNext ==
    \/ \E text \in Texts : NormalizeText(text)
    \/ \E query \in KeywordQueries, top_k \in TopKs : KeywordSearch(query, top_k)
    \/ Return

SpecText == TextInit /\ [][TextNext]_vars

----------------------------------------------------------------------------
(* search when the two indexes give scores that tie: the same score from     *)
(* both, and scores that differ only beyond the second decimal.              *)

\* the scores the indexes give here, all in the low tier and above both of its
\* filters
TieScores == {400000, 404000}

\* the query searched
TieQuery == <<"seen", "waw", "sheen", "yeh">>

TieInit ==
    /\ menu_items = _load_menu(Min(MaxItems, Len(MasterIds)))
    /\ name_index = _build_name_index(menu_items)
    /\ full_index = _build_full_index(menu_items)
    /\ pc = "idle"
    /\ call = NoCall
    /\ outcome = Returned(NoResponse)
    /\ consulted = <<>>
    /\ menu_engine = "MenuSearchEngine"
    /\ now = StartTime
    /\ _cache_timestamp = 0
    /\ lru = <<>>
    /\ tool_call = NoToolCall
    /\ seen = [q \in ProbeQueries |-> NeverSeen]
    /\ threads = [t \in Threads |-> NoThread]
    /\ session = NewSession

\* search(query, top_k), the embedding service answering both requests
SearchTied(query, top_k) ==
    /\ pc = "idle"
    /\ \E name_results \in _search_index(Len(menu_items), top_k, TieScores),
          full_results \in _search_index(Len(menu_items), top_k, TieScores) :
            LET r == search(menu_items, query, top_k, name_results, full_results, 2)
            IN /\ call' = [NoCall EXCEPT !.op = "search", !.query = query,
                                         !.top_k = top_k,
                                         !.name_results = name_results,
                                         !.full_results = full_results,
                                         !.embedded = r.embedded]
               /\ outcome' = r.outcome
               /\ consulted' = r.consulted
    /\ pc' = "search"
    /\ ReadsCatalog
    /\ UNCHANGED <<cache_vars, session>>

TieNext ==
    \/ \E top_k \in TopKs : SearchTied(TieQuery, top_k)
    \/ Return

SpecTies == TieInit /\ [][TieNext]_vars

----------------------------------------------------------------------------
(* _determine_current_agent called on the sessions a conversation can reach. *)

\* the agents a turn can end with: result.last_agent.name without "_agent"
AgentNames == {"greeting", "location", "order", "checkout"}

\* intent and order_mode: the defaults, or what set_order_mode stored in both
IntentModes == {<<None, "delivery">>, <<"delivery", "delivery">>,
                <<"pickup", "pickup">>}

\* an order line as add_to_order stores it
SomeOrderItem ==
    [item_id |-> MasterIds[1], name_ar |-> MasterNamesAr[1], quantity |-> 1,
     unit_price |-> MasterPrices[1], size |-> None, notes |-> <<>>]

Sessions ==
    {[NewSession EXCEPT !.current_agent = a, !.intent = im[1],
                        !.order_mode = im[2], !.location_confirmed = lc,
                        !.address_complete = ac, !.order_items = oi] :
        a \in AgentNames, im \in IntentModes, lc \in BOOLEAN, ac \in BOOLEAN,
        oi \in {<<>>, <<SomeOrderItem>>}}

AgentInit ==
    /\ menu_items = _load_menu(1)
    /\ name_index = _build_name_index(menu_items)
    /\ full_index = _build_full_index(menu_items)
    /\ pc = "idle"
    /\ call = NoCall
    /\ outcome = Returned(NoResponse)
    /\ consulted = <<>>
    /\ menu_engine = "MenuSearchEngine"
    /\ now = StartTime
    /\ _cache_timestamp = 0
    /\ lru = <<>>
    /\ tool_call = NoToolCall
    /\ seen = [q \in ProbeQueries |-> NeverSeen]
    /\ threads = [t \in Threads |-> NoThread]
    /\ session \in Sessions

\* agent_name = _determine_current_agent(session)
DetermineCurrentAgent ==
    /\ pc = "idle"
    /\ call' = [NoCall EXCEPT !.op = "_determine_current_agent"]
    /\ outcome' = [raised |-> "", value |-> _determine_current_agent(session)]
    /\ consulted' = <<>>
    /\ pc' = "_determine_current_agent"
    /\ UNCHANGED <<menu_items, name_index, full_index, cache_vars, session>>

AgentNext ==
    \/ DetermineCurrentAgent
    \/ Return

SpecAgent == AgentInit /\ [][AgentNext]_vars

----------------------------------------------------------------------------
(* The order tools called in any order on one session. *)

\* the catalog the order tools look items up in: one item without sizes, one
\* with sizes
OrderCatalog == _load_menu(2)

\* an id that is in no catalog, and the same as the text search is given
AbsentId == "main_999"
AbsentIdText == <<"m", "a", "i", "n", "_", "9", "9", "9">>

\* the item_id arguments
OrderIds == {OrderCatalog[i].id : i \in 1..Len(OrderCatalog)} \cup {AbsentId}

\* the quantity arguments: the two ends of the allowed range and the values
\* next to them
Quantities == {0, 1, 10, 11}

\* the size arguments
SizeArgs == {None, "large"}

\* the names and hints the customer gives: part of the first item's name, and
\* a dish that is not on the menu
NameArgs == {<<"beh", "reh", "jeem", "reh">>, <<"seen", "waw", "sheen", "yeh">>}

\* a note
SomeNote == <<"beh", "dal", "waw", "noon">>

\* the scores the indexes give for the text of the absent id
OrderNameScores == {299999, 694999, 695001, 750000}
OrderFullScores == {349999, 400000}

\* what the agent stores after showing options: the two items of the catalog
OfferedLists ==
    {[i \in 1..Len(OrderCatalog) |->
         [id |-> OrderCatalog[i].id, name_ar |-> OrderCatalog[i].name_ar]]}

\* what menu_engine.search(AbsentIdText, top_k=1) can do
AbsentIdSearches ==
    UNION {UNION {{search(OrderCatalog, AbsentIdText, 1, name_results,
                          full_results, answered).outcome :
                     full_results \in
                         IF answered >= 2 /\ SearchesFullIndex(name_results)
                         THEN _search_index(Len(OrderCatalog), 1, OrderFullScores)
                         ELSE {<<>>}} :
                  name_results \in
                      IF answered >= 1
                      THEN _search_index(Len(OrderCatalog), 1, OrderNameScores)
                      ELSE {<<>>}} :
           answered \in ServiceAnswers}

OrderInit ==
    /\ menu_items = OrderCatalog
    /\ name_index = _build_name_index(menu_items)
    /\ full_index = _build_full_index(menu_items)
    /\ pc = "idle"
    /\ call = NoCall
    /\ outcome = Returned(NoResponse)
    /\ consulted = <<>>
    /\ menu_engine = "MenuSearchEngine"
    /\ now = StartTime
    /\ _cache_timestamp = 0
    /\ lru = <<>>
    /\ tool_call = NoToolCall
    /\ seen = [q \in ProbeQueries |-> NeverSeen]
    /\ threads = [t \in Threads |-> NoThread]
    /\ session = NewSession

\* an order tool was called and did r
OrderToolCalled(op, r) ==
    /\ pc = "idle"
    /\ pc' = op
    /\ call' = [NoCall EXCEPT !.op = op, !.before = session.order_items]
    /\ outcome' = r.outcome
    /\ session' = r.session
    /\ consulted' = <<>>
    /\ UNCHANGED <<menu_items, name_index, full_index, cache_vars>>

AddToOrder(item_id, quantity, size) ==
    /\ Len(session.order_items) < MaxOrderItems
    /\ \E search_outcome \in
             IF item_id = AbsentId THEN AbsentIdSearches
             ELSE {Returned(NoResponse)} :
          OrderToolCalled("add_to_order",
                          add_to_order(session, menu_engine, menu_items, item_id,
                                       quantity, size, <<>>, search_outcome))

RemoveFromOrder(item_name, item_index) ==
    /\ pc = "idle"
    /\ OrderToolCalled("remove_from_order",
                       remove_from_order(session, item_name, item_index))

ModifyOrderItem(item_name, item_index, quantity, size, notes) ==
    /\ pc = "idle"
    /\ OrderToolCalled("modify_order_item",
                       modify_order_item(session, menu_engine, menu_items,
                                         item_name, item_index, quantity, size,
                                         notes))

StoreOfferedItems(offered) ==
    /\ pc = "idle"
    /\ OrderToolCalled("store_offered_items",
                       store_offered_items(session, offered))

SelectFromOffered(selection_hint, quantity) ==
    /\ Len(session.order_items) < MaxOrderItems
    /\ OrderToolCalled("select_from_offered",
                       select_from_offered(session, menu_engine, menu_items,
                                           selection_hint, quantity))

OrderNext ==
    \/ \E item_id \in OrderIds, quantity \in Quantities, size \in SizeArgs :
          AddToOrder(item_id, quantity, size)
    \/ \E item_name \in NameArgs \cup {None_str},
          item_index \in 1..MaxOrderItems \cup {NoneInt} :
          RemoveFromOrder(item_name, item_index)
    \/ \E item_name \in NameArgs \cup {None_str},
          item_index \in 1..MaxOrderItems \cup {NoneInt},
          quantity \in Quantities \cup {NoneInt}, size \in SizeArgs,
          notes \in {None_str, SomeNote} :
          ModifyOrderItem(item_name, item_index, quantity, size, notes)
    \/ \E offered \in OfferedLists : StoreOfferedItems(offered)
    \/ \E selection_hint \in NameArgs, quantity \in Quantities :
          SelectFromOffered(selection_hint, quantity)
    \/ Return

SpecOrder == OrderInit /\ [][OrderNext]_vars

----------------------------------------------------------------------------
(* Vocabulary of the properties: the pending search call seen from outside. *)

\* a search is pending, the embedding service having answered its requests
SearchDone == pc = "search" /\ outcome.raised # EmbeddingError

\* a search is pending that the embedding service failed
EmbeddingFailed == pc = "search" /\ outcome.raised = EmbeddingError

\* the best name-index hit of the pending search
BestScore == call.name_results[1][1]
BestPos == call.name_results[1][2]

SearchReturned == SearchDone /\ outcome.raised = ""

\* the catalog item at a 0-based position
CatalogItemAt(pos) == menu_items[pos + 1]

CatalogIds == {menu_items[i].id : i \in 1..Len(menu_items)}

ResultIds == {outcome.value.items[i].id : i \in 1..Len(outcome.value.items)}

\* the valid hits of a hit list
ValidHits(hits) == {hits[i] : i \in {j \in 1..Len(hits) : hits[j][2] >= 0}}

\* the name hits at or above 0.55, in the order the index gave them
MediumHits == SelectSeq(call.name_results, LAMBDA h : h[1] >= 550000 /\ h[2] >= 0)

\* the first three name hits at or above 0.3
LowNameHits ==
    {h \in ValidHits(Take(call.name_results, 3)) : h[1] >= 300000}

\* the full-index hits at or above 0.35
LowFullHits == {h \in ValidHits(call.full_results) : h[1] >= 350000}

\* the ids of the merged set of the low tier
MergedIds == {CatalogItemAt(h[2]).id : h \in LowNameHits \cup LowFullHits}

\* the score the merged set reports for an id: the name hit's when it has one
MergedScore(id) ==
    LET fromName == {h \in LowNameHits : CatalogItemAt(h[2]).id = id}
        fromFull == {h \in LowFullHits : CatalogItemAt(h[2]).id = id}
    IN Round2((CHOOSE h \in (IF fromName # {} THEN fromName ELSE fromFull) : TRUE)[1])

NoIdTwice(items) ==
    \A i, j \in 1..Len(items) : items[i].id = items[j].id => i = j

ScoresDescending(items) ==
    \A i \in 1..(Len(items) - 1) : items[i].score >= items[i + 1].score

\* the pending search got below 0.55 on the name index and nothing from either index
VectorSearchEmpty == SearchDone /\ BestScore < 550000 /\ MergedIds = {}

\* the words of a text, as a set
WordSet(text) == {Split(text)[i] : i \in 1..Len(Split(text))}

\* some catalog item overlaps the normalized query under one of the keyword
\* matcher's four rules: equal names, containment, a shared word, or a query
\* word of three letters or more inside (or around) a name word
KeywordOverlap ==
    \E i \in 1..Len(menu_items) :
        LET q == _normalize_text(call.query)
            name_ar == _normalize_text(menu_items[i].name_ar)
            name_en == _normalize_text(menu_items[i].name_en)
            name_words == WordSet(name_ar) \cup WordSet(name_en)
        IN \/ q = name_ar \/ q = name_en
           \/ Contains(q, name_ar) \/ Contains(name_ar, q)
           \/ WordSet(q) \cap name_words # {}
           \/ \E qword \in WordSet(q), nword \in name_words :
                 Len(qword) >= 3 /\ (Contains(qword, nword) \/ Contains(nword, qword))

----------------------------------------------------------------------------
C4_LowTierAllMerged ==
    (SearchDone /\ BestScore < 550000 /\ MergedIds # {}) =>
        /\ outcome.raised = ""
        /\ outcome.value.found = TRUE
        /\ outcome.value.confidence = "low"
        /\ outcome.value.action = "show_options"
        /\ outcome.value.searched_descriptions = TRUE
        /\ ResultIds = MergedIds
        /\ NoIdTwice(outcome.value.items)
        /\ ScoresDescending(outcome.value.items)

(* C4, amended: the items are the five best of that union (all of it when it *)
(* holds at most five): each id once, by descending reported score, no item  *)
(* left out scoring above one that is listed.                                *)
C4_LowTierFirstFive ==
    (SearchDone /\ BestScore < 550000 /\ MergedIds # {}) =>
        /\ outcome.raised = ""
        /\ outcome.value.found = TRUE
        /\ outcome.value.confidence = "low"
        /\ outcome.value.action = "show_options"
        /\ "searched_descriptions" \in outcome.value.keys
        /\ outcome.value.searched_descriptions = TRUE
        /\ ResultIds \subseteq MergedIds
        /\ Len(outcome.value.items) = Min(5, Cardinality(MergedIds))
        /\ NoIdTwice(outcome.value.items)
        /\ ScoresDescending(outcome.value.items)
        /\ \A i \in 1..Len(outcome.value.items) :
              outcome.value.items[i].score = MergedScore(outcome.value.items[i].id)
        /\ \A id \in MergedIds \ ResultIds :
              \A i \in 1..Len(outcome.value.items) :
                  MergedScore(id) <= outcome.value.items[i].score
        /\ consulted = <<"name_index", "full_index">>

C4_Witness ==
    /\ SearchDone /\ BestScore < 550000
    /\ Cardinality(MergedIds) > 5
    /\ Len(outcome.value.items) = 5
    /\ \E h \in LowNameHits : \E g \in LowFullHits : h[2] = g[2]

(* C5: with a best name-index score below 0.55 and an empty merged set the   *)
(* keyword matcher runs, and when it yields an item the response is found,   *)
(* action show_options, flagged as a keyword match, the matcher's items as   *)
(* the list.                                                                 *)
C5_KeywordFallback ==
    (VectorSearchEmpty /\ call.query # <<>> /\ KeywordOverlap) =>
        /\ consulted = <<"name_index", "full_index", "keyword">>
        /\ outcome.raised = ""
        /\ outcome.value.found = TRUE
        /\ outcome.value.action = "show_options"
        /\ outcome.value.match_type = "keyword_fallback"
        /\ outcome.value.items # <<>>
        /\ ResultIds \subseteq CatalogIds

(* C6: with every score below its threshold and no keyword overlap search    *)
(* returns, and does not raise, found=false, confidence none, action         *)
(* inform_not_available, the original query and the catalog's categories.    *)
C6_NotFound ==
    (VectorSearchEmpty /\ ~KeywordOverlap) =>
        /\ outcome.raised = ""
        /\ outcome.value.found = FALSE
        /\ outcome.value.confidence = "none"
        /\ outcome.value.action = "inform_not_available"
        /\ outcome.value.query = call.query
        /\ outcome.value.available_categories =
              {menu_items[i].category : i \in 1..Len(menu_items)}

(* C7: search("") normalizes the query to the empty string and returns a     *)
(* NotFound response: it does not raise and returns no catalog item.         *)
C7_EmptyQuery ==
    (SearchDone /\ call.query = <<>>) =>
        /\ _normalize_text(call.query) = <<>>
        /\ outcome.raised = ""
        /\ outcome.value.found = FALSE
        /\ outcome.value.items = <<>>

(* C8: every item of every response search returns carries the id of a       *)
(* catalog item, the item at the position of a valid hit, so get_item_by_id  *)
(* finds it; a position of -1 never becomes a result, also when the index    *)
(* holds fewer than top_k vectors.                                           *)
C8_ResultsResolve ==
    SearchReturned =>
        \A i \in 1..Len(outcome.value.items) :
            LET r == outcome.value.items[i]
            IN /\ r.id \in CatalogIds
               /\ ~get_item_by_id(menu_items, r.id).is_none
               /\ get_item_by_id(menu_items, r.id).item.id = r.id
               /\ \E h \in ValidHits(call.name_results) \cup ValidHits(call.full_results) :
                     /\ CatalogItemAt(h[2]).id = r.id
                     /\ CatalogItemAt(h[2]).name_ar = r.name_ar
                     /\ Round2(h[1]) = r.score

C8_Witness ==
    /\ SearchReturned
    /\ call.top_k > Len(menu_items)
    /\ \E i \in 1..Len(call.name_results) : call.name_results[i][2] < 0
    /\ Len(outcome.value.items) = 2
    /\ outcome.value.confidence = "low"

(* C9: get_item_by_id(id) returns the catalog item loaded with that id for   *)
(* every id of the catalog and None for every other id; it never returns an  *)
(* item with another id.                                                     *)
C9_LookupById ==
    pc = "get_item_by_id" =>
        /\ call.item_id \in CatalogIds =>
              /\ ~outcome.value.is_none
              /\ outcome.value.item.id = call.item_id
              /\ \E i \in 1..Len(menu_items) : menu_items[i] = outcome.value.item
        /\ call.item_id \notin CatalogIds => outcome.value.is_none

C9_Witness ==
    /\ pc = "get_item_by_id"
    /\ call.item_id = "bev_001"
    /\ ~outcome.value.is_none
    /\ outcome.value.item.price = 14

C9_WitnessAbsent ==
    /\ pc = "get_item_by_id"
    /\ call.item_id = "main_999"
    /\ outcome.value.is_none

----------------------------------------------------------------------------
(* Vocabulary of the cache properties: the last search_menu call. *)

\* the last call repeats a query already asked in the same bucket, and that
\* earlier call returned a response
RepeatInBucket ==
    /\ tool_call.query \in ProbeQueries
    /\ tool_call.prev_bucket = tool_call.bucket
    /\ tool_call.prev_outcome.raised = ""

ToolCalled == tool_call.bucket # 0 - 1

\* the last call found _cache_timestamp at another bucket than its own: it is
\* the first call of its bucket
Rollover == ToolCalled /\ tool_call.bucket # tool_call.stamp_before

\* the last call asked a query for the first time in its bucket
FirstInBucket ==
    /\ ToolCalled
    /\ tool_call.query \in ProbeQueries => tool_call.prev_bucket # tool_call.bucket

(* C11: _cache_timestamp is the bucket of the last call, and the first       *)
(* search_menu call of another bucket finds the whole cache emptied before   *)
(* its lookup: the cache never holds an entry of another bucket than the     *)
(* last call's, a hit returns only what was stored in the caller's bucket,   *)
(* and every query's first call in a bucket runs the cached function (and so *)
(* the installed engine).                                                    *)
C11_RolloverClearsAll ==
    /\ ToolCalled => _cache_timestamp = tool_call.bucket
    /\ \A i \in 1..Len(lru) : lru[i].key[2] = _cache_timestamp
    /\ Rollover => tool_call.missed /\ Len(lru) <= 1
    /\ FirstInBucket =>
          /\ tool_call.missed
          /\ tool_call.engine # "None" => tool_call.engine_called
    /\ (ToolCalled /\ ~tool_call.missed) =>
          /\ tool_call.query \in ProbeQueries
          /\ tool_call.prev_bucket = tool_call.bucket
          /\ outcome = tool_call.prev_outcome

C11_Witness ==
    /\ Rollover
    /\ tool_call.entries_before > 0
    /\ tool_call.query \in ProbeQueries
    /\ tool_call.prev_bucket = tool_call.stamp_before
    /\ tool_call.prev_outcome.raised = ""
    /\ tool_call.prev_outcome.value.found
    /\ tool_call.engine_called
    /\ Len(lru) = 1

(* C12: two raw queries with the same normalized text, asked in the same     *)
(* bucket, share one cache entry: the second one is a hit and does not       *)
(* invoke the engine.                                                        *)
C12_NormalizedKey ==
    \A p \in ProbeQueries :
        (/\ tool_call.query \in ProbeQueries
         /\ tool_call.engine # "None"
         /\ p # tool_call.query
         /\ _normalize_text(p) = _normalize_text(tool_call.query)
         /\ tool_call.seen_before[p].bucket = tool_call.bucket
         /\ tool_call.seen_before[p].outcome.raised = ""
         /\ tool_call.seen_before[p].outcome.value.found
         /\ Cardinality(tool_call.seen_before[p].others) < 128)
        => /\ ~tool_call.missed
           /\ ~tool_call.engine_called

\* the last search_menu call ran the engine and the embedding service failed
ToolEmbeddingFailed ==
    ToolCalled /\ tool_call.engine_called /\ outcome.raised = EmbeddingError

----------------------------------------------------------------------------
(* C13: under every interleaving of search_menu calls around a bucket        *)
(* rollover a finished call holds the response the engine gives for its own  *)
(* query, computed by a call of its own bucket; the cache holds each key     *)
(* once, with the value computed for that key.  A race costs recomputation   *)
(* only.                                                                     *)
C13_RaceOnlyRecomputes ==
    /\ \A t \in Threads :
          threads[t].pc = "done" =>
              /\ threads[t].result.response = EngineSearch(threads[t].query)
              /\ threads[t].result.query = threads[t].query
              /\ threads[t].result.bucket = threads[t].current_bucket
              /\ threads[t].result.response.found
    /\ \A i \in 1..Len(lru) :
          /\ lru[i].key = <<lru[i].value.query, lru[i].value.bucket>>
          /\ lru[i].value.response = EngineSearch(lru[i].key[1])
          /\ \A j \in 1..Len(lru) : lru[j].key = lru[i].key => i = j

\* two calls of the same query on the two sides of a rollover, both finished,
\* the earlier bucket's call having set _cache_timestamp back and recomputed
C13_Witness ==
    \E t1, t2 \in Threads :
        /\ threads[t1].pc = "done" /\ threads[t2].pc = "done"
        /\ threads[t1].query = threads[t2].query
        /\ threads[t1].current_bucket + 1 = threads[t2].current_bucket
        /\ threads[t1].missed /\ threads[t2].missed
        /\ _cache_timestamp = threads[t1].current_bucket
        /\ _get_cache_bucket(now) = threads[t2].current_bucket
        /\ \E i \in 1..Len(lru) : lru[i].key[2] # _cache_timestamp

----------------------------------------------------------------------------
(* Vocabulary of the text properties. *)

NormalizeDone == pc = "_normalize_text"

KeywordDone == pc = "_keyword_search"

\* the results of the pending _keyword_search call that carry an item's id
KeywordResultsOf(id) ==
    {outcome.value[i] : i \in {j \in 1..Len(outcome.value) : outcome.value[j].id = id}}

\* one of two distinct texts contains the other
ProperContainment(a, b) == a # b /\ (Contains(a, b) \/ Contains(b, a))

\* min(0.95, 0.7 + 0.25 * len(shorter) / len(longer)), in units of 10^-6
ContainmentScore(a, b) ==
    LET shorter == Min(Len(a), Len(b))
        longer == IF Len(a) >= Len(b) THEN Len(a) ELSE Len(b)
    IN Min(950000, 700000 + (250000 * shorter) \div longer)

(* C15: normalization is idempotent: normalizing the result of                *)
(* _normalize_text again gives that result, for the table spellings, for the *)
(* catalog names and for words holding more than one variant.                *)
C15_NormalizeIdempotent ==
    NormalizeDone => _normalize_text(outcome.value) = outcome.value

(* C16: normalization is symmetric over the tables: a variant letter of      *)
(* PHONETIC_SIMILAR normalizes to what its canonical letter normalizes to,   *)
(* and a variant of FOOD_SPELLING_FIXES to what its canonical spelling       *)
(* normalizes to.                                                            *)
C16_NormalizeSymmetric ==
    NormalizeDone =>
        /\ \A g \in 1..Len(PHONETIC_SIMILAR) :
              \A v \in 1..Len(PHONETIC_SIMILAR[g][2]) :
                  call.query = <<PHONETIC_SIMILAR[g][2][v]>> =>
                      outcome.value = _normalize_text(<<PHONETIC_SIMILAR[g][1]>>)
        /\ \A e \in 1..Len(FOOD_SPELLING_FIXES) :
              \A k \in 1..Len(FOOD_SPELLING_FIXES[e][2]) :
                  call.query = FOOD_SPELLING_FIXES[e][2][k] =>
                      outcome.value = _normalize_text(FOOD_SPELLING_FIXES[e][1])

(* C18: the keyword matcher gives 1.0 to every item whose normalized primary *)
(* or secondary name equals the normalized query, and no result a score      *)
(* above 1.0 (so none above an exact match).                                 *)
C18_KeywordExactScore ==
    (KeywordDone /\ call.top_k = 5) =>
        /\ outcome.raised = ""
        /\ \A i \in 1..Len(menu_items) :
              (\/ _normalize_text(call.query) = _normalize_text(menu_items[i].name_ar)
               \/ _normalize_text(call.query) = _normalize_text(menu_items[i].name_en))
              => \E r \in KeywordResultsOf(menu_items[i].id) : r.score = 1000000
        /\ \A j \in 1..Len(outcome.value) : outcome.value[j].score <= 1000000

(* C19: the keyword matcher gives an item whose normalized primary or        *)
(* secondary name contains the normalized query, or is contained in it,      *)
(* without being equal to it, min(0.95, 0.7 + 0.25 * len(shorter) /          *)
(* len(longer)), reported to two decimals.                                   *)
C19_KeywordContainmentScore ==
    (KeywordDone /\ call.top_k = 5 /\ _normalize_text(call.query) # <<>>) =>
        \A i \in 1..Len(menu_items) :
            LET q == _normalize_text(call.query)
                name_ar == _normalize_text(menu_items[i].name_ar)
                name_en == _normalize_text(menu_items[i].name_en)
            IN /\ (q # name_en /\ ProperContainment(q, name_ar)) =>
                     /\ outcome.raised = ""
                     /\ \E r \in KeywordResultsOf(menu_items[i].id) :
                           r.score = Round2(ContainmentScore(q, name_ar))
               /\ (q # name_ar /\ name_en # <<>> /\ ProperContainment(q, name_en)) =>
                     /\ outcome.raised = ""
                     /\ \E r \in KeywordResultsOf(menu_items[i].id) :
                           r.score = Round2(ContainmentScore(q, name_en))

(* C17: query text and catalog text go through the same pipeline: every     *)
(* text a search sends to the embedding service for its query is the text    *)
(* the index build sends for a catalog text equal to that query.             *)
C17_SamePipeline ==
    pc = "search" =>
        \A i \in 1..Len(call.embedded) : call.embedded[i] = IndexedText(call.query)

----------------------------------------------------------------------------
(* The catalog and the indexes over the life of an engine. *)

\* position by position, each index holds the vector built from the item at
\* that position of the catalog
IndexesFollowCatalog(items, names, fulls) ==
    /\ Len(names) = Len(items) /\ Len(fulls) = Len(items)
    /\ \A i \in 1..Len(items) :
          /\ names[i].name_ar = items[i].name_ar
          /\ names[i].name_en = items[i].name_en
          /\ fulls[i].name_ar = items[i].name_ar
          /\ fulls[i].name_en = items[i].name_en
          /\ fulls[i].category = items[i].category

(* C21: no step of the engine (a search, with the keyword matcher it may     *)
(* reach, a get_item_by_id, the return of either) changes the catalog or one *)
(* of the two indexes, and after the step each index position still holds    *)
(* the vector of the catalog item at that position.                          *)
C21_CatalogReadOnly ==
    [][/\ menu_items' = menu_items
       /\ name_index' = name_index
       /\ full_index' = full_index
       /\ IndexesFollowCatalog(menu_items', name_index', full_index')]_vars

\* a search over a catalog of several items has answered from the full index,
\* catalog and indexes being the ones built at startup
C21_Witness ==
    /\ SearchReturned
    /\ outcome.value.found
    /\ consulted = <<"name_index", "full_index">>
    /\ Len(menu_items) > 1
    /\ menu_items = _load_menu(Len(menu_items))
    /\ name_index = _build_name_index(_load_menu(Len(menu_items)))
    /\ full_index = _build_full_index(_load_menu(Len(menu_items)))

----------------------------------------------------------------------------
(* The stages of one search call. *)

\* the stages in the order search enters them
Stages == <<"name_index", "full_index", "keyword">>

\* the pending search entered that stage
Entered(stage) == \E i \in 1..Len(consulted) : consulted[i] = stage

C22_WitnessAnswered ==
    /\ SearchReturned
    /\ outcome.value.found
    /\ consulted = Take(Stages, 2)
    /\ BestScore < MEDIUM_CONFIDENCE

----------------------------------------------------------------------------
(* Ties between returned items. *)

\* the 0-based position in the catalog of the first item with that id
CatalogPosition(id) ==
    CHOOSE i \in 0..(Len(menu_items) - 1) :
        /\ menu_items[i + 1].id = id
        /\ \A j \in 1..i : menu_items[j].id # id

\* an index gave its hits of equal score in the order of their positions
TiesByPosition(hits) ==
    \A i, j \in 1..Len(hits) :
        (i < j /\ hits[i][2] >= 0 /\ hits[j][2] >= 0 /\ hits[i][1] = hits[j][1])
            => hits[i][2] < hits[j][2]

\* items of equal reported score are in the order of their catalog positions
TiesInCatalogOrder(items) ==
    \A i, j \in 1..Len(items) :
        (i < j /\ items[i].score = items[j].score)
            => CatalogPosition(items[i].id) < CatalogPosition(items[j].id)

(* C23: when two items of a low-confidence response of search (the merged    *)
(* name-index and full-index hits, or the keyword matcher's results) have    *)
(* equal scores, they are in the order of their positions in the catalog;    *)
(* each index is taken to give its own equal-score hits in position order.   *)
C23_TiesInCatalogOrder ==
    (/\ SearchReturned
     /\ outcome.value.found
     /\ outcome.value.confidence = "low"
     /\ TiesByPosition(call.name_results)
     /\ TiesByPosition(call.full_results)) =>
        TiesInCatalogOrder(outcome.value.items)

----------------------------------------------------------------------------
(* Routing. *)

\* _determine_current_agent has answered for the session
AgentDetermined == pc = "_determine_current_agent"

(* C24: _determine_current_agent follows the flow of its docstring whatever  *)
(* session.current_agent is: a session without intent goes to greeting, and  *)
(* a session with an intent whose order mode is delivery and whose location  *)
(* is not confirmed goes to location.                                        *)
C24_DocumentedFlow ==
    AgentDetermined =>
        /\ session.intent = None => outcome.value = "greeting"
        /\ (/\ session.intent # None
            /\ session.order_mode = "delivery"
            /\ ~session.location_confirmed) => outcome.value = "location"

----------------------------------------------------------------------------
(* The fields of a found response. *)

(* C25: in every found response of search, count is the number of entries of *)
(* items and top_match is the primary name of the first entry of items, also *)
(* in the low tier when the merged set has more than 5 items.                *)
C25_CountMatchesItems ==
    (SearchReturned /\ outcome.value.found) =>
        /\ outcome.value.items # <<>>
        /\ outcome.value.count = Len(outcome.value.items)
        /\ outcome.value.top_match = outcome.value.items[1].name_ar

(* C26: in every found response of search the items are in non-increasing    *)
(* order of their reported score and no item id occurs twice; an item hit by *)
(* both indexes in the low tier appears once.                                *)
C26_SortedAndUnique ==
    (SearchReturned /\ outcome.value.found) =>
        /\ ScoresDescending(outcome.value.items)
        /\ NoIdTwice(outcome.value.items)
        /\ outcome.value.confidence = "low" =>
              \A h \in LowNameHits :
                  Cardinality({i \in 1..Len(outcome.value.items) :
                                  outcome.value.items[i].id = CatalogItemAt(h[2]).id}) <= 1

\* a low-tier response holding once an item that both indexes hit, and items
\* of different scores
C26_Witness ==
    /\ SearchReturned
    /\ outcome.value.found
    /\ outcome.value.confidence = "low"
    /\ \E h \in LowNameHits, g \in LowFullHits :
          /\ h[2] = g[2]
          /\ h[1] # g[1]
          /\ \E i \in 1..Len(outcome.value.items) :
                /\ outcome.value.items[i].id = CatalogItemAt(h[2]).id
                /\ outcome.value.items[i].score = Round2(h[1])
    /\ \E i, j \in 1..Len(outcome.value.items) :
          outcome.value.items[i].score > outcome.value.items[j].score

----------------------------------------------------------------------------
(* The cached tool once the engine is installed. *)

(* C27: once menu_engine is installed, a search_menu call never returns the  *)
(* menu_engine_not_initialized error, also when the same query was asked in  *)
(* the same bucket before the engine was installed.                          *)
C27_InstalledEngineAnswers ==
    (ToolCalled /\ tool_call.engine # "None" /\ outcome.raised = "") =>
        /\ outcome.value # NotInitialized
        /\ outcome.value.error # "menu_engine_not_initialized"

----------------------------------------------------------------------------
(* The stored bucket under concurrent calls. *)

\* no thread is inside search_menu and some call has completed
AllCallsComplete ==
    /\ \A t \in Threads : threads[t].pc \in {"idle", "done"}
    /\ \E t \in Threads : threads[t].pc = "done"

(* C28: the clock never going back, under every interleaving of search_menu  *)
(* calls no step decreases _cache_timestamp, and once all calls are complete *)
(* _cache_timestamp is the bucket of the clock the latest call read and      *)
(* every cache entry was computed in that bucket.                            *)
C28_TimestampMonotone ==
    [][/\ _cache_timestamp' >= _cache_timestamp
       /\ AllCallsComplete' =>
             /\ \A t \in Threads :
                   threads'[t].pc = "done" =>
                       _cache_timestamp' >= threads'[t].current_bucket
             /\ \A i \in 1..Len(lru') : lru'[i].key[2] = _cache_timestamp']_vars

----------------------------------------------------------------------------
(* The order. *)

(* C29: after any sequence of add_to_order, select_from_offered,             *)
(* modify_order_item and remove_from_order calls every line of the order has *)
(* a quantity between 1 and 10; a call that returns an error leaves the      *)
(* order as it was.                                                          *)
C29_QuantityInRange ==
    /\ \A i \in 1..Len(session.order_items) :
          session.order_items[i].quantity \in 1..10
    /\ (/\ pc \in {"add_to_order", "select_from_offered", "remove_from_order"}
        /\ outcome.raised = ""
        /\ ~outcome.value.ok) => session.order_items = call.before

(* C30: modify_order_item is all-or-nothing: when it returns success=false   *)
(* every line of the order has the quantity, size, unit price and notes it   *)
(* had before the call.                                                      *)
C30_ModifyAllOrNothing ==
    (pc = "modify_order_item" /\ outcome.raised = "" /\ ~outcome.value.ok) =>
        /\ Len(session.order_items) = Len(call.before)
        /\ \A i \in 1..Len(call.before) :
              /\ session.order_items[i].quantity = call.before[i].quantity
              /\ session.order_items[i].size = call.before[i].size
              /\ session.order_items[i].unit_price = call.before[i].unit_price
              /\ session.order_items[i].notes = call.before[i].notes

====
